---- MODULE Spec2Model ----
(***************************************************************************)
(* rdflib_jsonld/serializer.py: conversion of an RDF store into a JSON-LD  *)
(* value tree (from_rdf and its helpers).                                  *)
(*                                                                         *)
(* RDF terms are records [k, v, dt, lang]; a Python None in a string field *)
(* is the string "None".  A JSON-LD value is a tagged pair:                *)
(*   <<"str", s>>   a string scalar (a bare literal, a bare identifier)    *)
(*   <<"arr", seq>> an array                                               *)
(*   <<"obj", f>>   an object, f a function from key strings to values     *)
(*   <<"ctx", d>>   the context data embedded under the context key        *)
(*   <<"none">>     Python None                                            *)
(*   <<"raise", e>> an exception e propagating out of the call             *)
(***************************************************************************)
EXTENDS Integers, Sequences, FiniteSets, TLC

VARIABLES store, ctx, pc, graphs, gi, objs, nodes, subjs, result, prev

vars == <<store, ctx, pc, graphs, gi, objs, nodes, subjs, result, prev>>

\* ------------------------------------------------------------------ bounds

\* largest number of statements in a store of the list family
MaxTriples == 5
\* largest number of statements in a store of the value family
MaxValTriples == 3
\* largest number of statements in a store of the document family
MaxDocTriples == 3

\* ------------------------------------------------------------------ terms

None == "None"

IRI(v) == [k |-> "iri", v |-> v, dt |-> None, lang |-> None]
BNode(v) == [k |-> "bnode", v |-> v, dt |-> None, lang |-> None]
Literal(v, dt, lang) == [k |-> "lit", v |-> v, dt |-> dt, lang |-> lang]
\* the absent term (Graph.value and Graph.identifier results that are None)
NoTerm == [k |-> "none", v |-> None, dt |-> None, lang |-> None]

isURIRef(t) == t.k = "iri"
isBNode(t) == t.k = "bnode"
isLiteral(t) == t.k = "lit"

RDF_first == IRI("rdf/first")
RDF_rest == IRI("rdf/rest")
RDF_nil == IRI("rdf/nil")
RDF_type == IRI("rdf/type")

XSD_int == "xsd/int"
XSD_string == "xsd/string"

Triple(s, p, o) == [s |-> s, p |-> p, o |-> o]

\* keys.py: the JSON-LD keywords
CONTEXT == "@context"
ID == "@id"
SET == "@set"
LIST == "@list"

\* ------------------------------------------------------------------ values

Str(s) == <<"str", s>>
Arr(seq) == <<"arr", seq>>
Obj(f) == <<"obj", f>>
NoneVal == <<"none">>
Raise(e) == <<"raise", e>>
EmptyDict == [k \in {} |-> NoneVal]

isRaise(v) == v[1] = "raise"
isObj(v) == v[1] = "obj"
isArr(v) == v[1] = "arr"
isStr(v) == v[1] = "str"

\* the first exception among the values of a sequence, evaluation order
RECURSIVE FirstRaise(_)
FirstRaise(seq) ==
    IF seq = <<>> THEN NoneVal
    ELSE IF isRaise(Head(seq)) THEN Head(seq)
    ELSE FirstRaise(Tail(seq))

\* ------------------------------------------------------------------ context

\* a term declaration, or no term
NoType == <<"none">>
NoTermDecl == [name |-> None, type |-> NoType, container |-> None]
Term(name, type, container) == [name |-> name, type |-> type, container |-> container]

\* bool(context) and bool(context_data)
Active(c) == c.active

\* Context.shrink
CompactForm ==
    [i \in {"ex/s1", "ex/s2", "ex/o1", "ex/o2", "ex/g1", "ex/g2", "ex/p", "ex/q",
            "rdf/first", "rdf/rest", "rdf/nil", "rdf/type", "xsd/int", "xsd/string"} |->
        CASE i = "ex/s1" -> "ex:s1" [] i = "ex/s2" -> "ex:s2"
          [] i = "ex/o1" -> "ex:o1" [] i = "ex/o2" -> "ex:o2"
          [] i = "ex/g1" -> "ex:g1" [] i = "ex/g2" -> "ex:g2"
          [] i = "ex/p" -> "ex:p" [] i = "ex/q" -> "ex:q"
          [] i = "rdf/first" -> "rdf:first" [] i = "rdf/rest" -> "rdf:rest"
          [] i = "rdf/nil" -> "rdf:nil" [] i = "rdf/type" -> "rdf:type"
          [] i = "xsd/int" -> "xsd:int" [] i = "xsd/string" -> "xsd:string"]

shrink(c, iri) == IF c.prefixes THEN CompactForm[iri] ELSE iri

\* Context.find_term: the term declared for the predicate, if any
find_term(c, p, datatype) ==
    IF p[2] \in DOMAIN c.terms THEN c.terms[p[2]] ELSE NoTermDecl

id_key(c) == "@id"
type_key(c) == "@type"
value_key(c) == "@value"
lang_key(c) == "@language"
list_key(c) == "@list"
graph_key(c) == "@graph"

\* BNode.n3()
n3(o) == "_:" \o o.v

\* unicode(x) of a datatype attribute (a URIRef or None): a plain unicode
\* string, no longer a URIRef; unicode(None) is u"None"
unicode(x) == <<"u", x>>

\* x != u for x a URIRef or None and u a plain unicode string: rdflib's
\* URIRef compares unequal to every object that is not a URIRef
AttrNeUnicode(x, u) == TRUE

\* ------------------------------------------------------------------ store queries

\* Graph.subjects()
subjects(g) == {t.s : t \in g.triples}

\* Graph.objects(s, p)
objects(g, s, p) == {t.o : t \in {u \in g.triples : u.s = s /\ u.p = p}}

\* any(graph.subjects(None, o))
referenced(g, o) == \E t \in g.triples : t.o = o

\* Graph.predicate_objects(s), as a set of pairs
predicate_objects(g, s) == {<<t.p, t.o>> : t \in {u \in g.triples : u.s = s}}

\* Graph.value(s, p): an object of (s, p), None when there is none
value(g, s, p) ==
    IF objects(g, s, p) = {} THEN NoTerm ELSE CHOOSE o \in objects(g, s, p) : TRUE

\* Graph.items(list): the items yielded, and whether the walk ended in the
\* ValueError of a recursive rdf:rest reference
RECURSIVE itemsFrom(_, _, _)
itemsFrom(g, list, chain) ==
    IF list = NoTerm THEN [items |-> <<>>, err |-> FALSE]
    ELSE LET item == value(g, list, RDF_first)
             next == value(g, list, RDF_rest)
             here == IF item # NoTerm THEN <<item>> ELSE <<>>
         IN  IF next \in chain THEN [items |-> here, err |-> TRUE]
             ELSE LET r == itemsFrom(g, next, chain \cup {next})
                  IN  [items |-> here \o r.items, err |-> r.err]

items(g, list) == itemsFrom(g, list, {list})

\* all orders in which a finite set can be enumerated
RECURSIVE Orders(_)
Orders(S) ==
    IF S = {} THEN {<<>>}
    ELSE UNION {{<<x>> \o r : r \in Orders(S \ {x})} : x \in S}

\* ------------------------------------------------------------------ rendering

\* a list of values, or the first exception raised while it was built
ListOrRaise(vs) == IF FirstRaise(vs) # NoneVal THEN FirstRaise(vs) ELSE Arr(vs)

\* _to_raw_value and _to_collection call each other; stack holds the list
\* heads whose _to_collection is still running, and a call on one of them
\* again never returns: the interpreter ends it with a RuntimeError
\* (maximum recursion depth exceeded), which no handler catches.
RECURSIVE to_raw_value(_, _, _, _), to_collection(_, _, _, _)

\* _to_raw_value without the comparison with the default language
raw_value_lang(c, o, coll) ==
    IF isRaise(coll) THEN coll
    ELSE IF coll # NoneVal THEN Obj(list_key(c) :> coll)
    ELSE IF isBNode(o) THEN Obj(id_key(c) :> Str(n3(o)))
    ELSE IF isURIRef(o) THEN Obj(id_key(c) :> Str(shrink(c, o.v)))
    ELSE IF isLiteral(o) THEN
        IF o.lang # None THEN
            Obj((lang_key(c) :> Str(o.lang)) @@ (value_key(c) :> Str(o.v)))
        ELSE IF o.dt # None THEN
            Obj((type_key(c) :> Str(shrink(c, o.dt))) @@ (value_key(c) :> Str(o.v)))
        ELSE IF ~Active(c) THEN Obj(value_key(c) :> Str(o.v))
        ELSE Str(o.v)
    ELSE NoneVal

\* the body of _to_raw_value once _to_collection has returned coll
raw_value(c, o, coll) ==
    IF isRaise(coll) THEN coll
    ELSE IF coll # NoneVal THEN Obj(list_key(c) :> coll)
    ELSE IF isBNode(o) THEN Obj(id_key(c) :> Str(n3(o)))
    ELSE IF isURIRef(o) THEN Obj(id_key(c) :> Str(shrink(c, o.v)))
    ELSE IF isLiteral(o) THEN
        IF o.lang # None /\ o.lang # c.language THEN
            Obj((lang_key(c) :> Str(o.lang)) @@ (value_key(c) :> Str(o.v)))
        ELSE IF o.dt # None THEN
            Obj((type_key(c) :> Str(shrink(c, o.dt))) @@ (value_key(c) :> Str(o.v)))
        ELSE IF ~Active(c) THEN Obj(value_key(c) :> Str(o.v))
        ELSE Str(o.v)
    ELSE NoneVal

\* the try block of _to_collection: the list of the rendered items, None on
\* the ValueError of Graph.items, or the exception of an item's rendering
\* (the generator renders every item before Graph.items walks on)
try_items(err, vs) ==
    IF FirstRaise(vs) # NoneVal THEN FirstRaise(vs)
    ELSE IF err THEN NoneVal
    ELSE Arr(vs)

rendered_items(g, c, it, stack) ==
    try_items(it.err, [i \in 1..Len(it.items) |-> to_raw_value(g, c, it.items[i], stack)])

to_collection(g, c, subj, stack) ==
    IF subj = RDF_nil THEN Arr(<<>>)
    ELSE IF objects(g, subj, RDF_first) # {} THEN
        IF subj \in stack THEN Raise("RuntimeError")
        ELSE rendered_items(g, c, items(g, subj), stack \cup {subj})
    ELSE NoneVal

to_raw_value(g, c, o, stack) == raw_value(c, o, to_collection(g, c, o, stack))

_to_collection(g, c, subj) == to_collection(g, c, subj, {})

_to_raw_value(g, c, o) == to_raw_value(g, c, o, {})

\* iri_to_id of _handles_for_property: any other object is passed as it is,
\* a blank node as its bare label, a literal as its lexical value
iri_to_id(c, o) == IF isURIRef(o) THEN Str(shrink(c, o.v)) ELSE Str(o.v)

\* the datatype _handles_for_property passes to find_term
shared_datatype(objs_) ==
    IF isLiteral(objs_[1]) THEN
        IF \E i \in 2..Len(objs_) :
              ~isLiteral(objs_[i]) \/ AttrNeUnicode(objs_[i].dt, unicode(objs_[1].dt))
        THEN NoType ELSE unicode(objs_[1].dt)
    ELSE NoType

\* the handles for the term find_term returned
handles(c, p, n, term) ==
    [p_key |-> IF term # NoTermDecl THEN term.name
               ELSE IF p = RDF_type THEN type_key(c)
               ELSE shrink(c, p.v),
     many |-> IF term # NoTermDecl
              THEN (IF term.container = SET THEN TRUE ELSE ~(n = 1))
              ELSE (~Active(c) \/ n # 1),
     repr |-> IF term # NoTermDecl THEN
                  (IF term.type # NoType THEN
                      (IF term.type = unicode(ID) THEN "iri_to_id" ELSE "typed")
                   ELSE "raw")
              ELSE IF p = RDF_type THEN "iri_to_id"
              ELSE "raw",
     type |-> term.type,
     unwrap |-> term # NoTermDecl /\ term.container = LIST]

\* _handles_for_property: the key, the cardinality and the value rendering
\* (repr_value, as the choice among its three lambdas, and whether the
\* list-container lambda wraps it)
_handles_for_property(g, c, p, objs_) ==
    handles(c, p, Len(objs_), find_term(c, unicode(p.v), shared_datatype(objs_)))

\* the list-container lambda left out: the wrapper stays
unwrapped_not(c, h, inner) == inner

\* the list-container lambda: wrapped_repr(o)[context.list_key]
unwrapped(c, h, inner) ==
    IF ~h.unwrap THEN inner
    ELSE IF isRaise(inner) THEN inner
    ELSE IF ~isObj(inner) THEN Raise("TypeError")
    ELSE IF list_key(c) \notin DOMAIN inner[2] THEN Raise("KeyError")
    ELSE inner[2][list_key(c)]

\* repr_value(o) for the handles h
repr_value(g, c, h, o) ==
    unwrapped(c, h,
        IF h.repr = "iri_to_id" THEN iri_to_id(c, o)
        ELSE IF h.repr = "typed" /\ ~isLiteral(o) THEN Raise("AttributeError")
        ELSE IF h.repr = "typed" /\ unicode(o.dt) = h.type THEN Str(o.v)
        ELSE _to_raw_value(g, c, o))

\* _key_and_node taking the first object whatever the cardinality
node_of_first(many, vs) == vs[1]

\* node of _key_and_node, vs the values repr_value gives the objects
node_of(many, vs) == IF ~many THEN vs[1] ELSE ListOrRaise(vs)

key_and_node(g, c, h, objs_) ==
    [p_key |-> h.p_key,
     node |-> node_of(h.many, [i \in 1..Len(objs_) |-> repr_value(g, c, h, objs_[i])])]

\* _key_and_node
_key_and_node(g, c, p, objs_) ==
    key_and_node(g, c, _handles_for_property(g, c, p, objs_), objs_)

\* the predicates of a sequence of (predicate, object) pairs, first seen first
RECURSIVE PredsOf(_, _)
PredsOf(po, seen) ==
    IF po = <<>> THEN <<>>
    ELSE IF Head(po)[1] \in seen THEN PredsOf(Tail(po), seen)
    ELSE <<Head(po)[1]>> \o PredsOf(Tail(po), seen \cup {Head(po)[1]})

\* p_objs[p]: the objects of p in the order of the pairs
RECURSIVE ObjsOf(_, _)
ObjsOf(po, p) ==
    IF po = <<>> THEN <<>>
    ELSE IF Head(po)[1] = p THEN <<Head(po)[2]>> \o ObjsOf(Tail(po), p)
    ELSE ObjsOf(Tail(po), p)

\* the second loop of _subject_to_node: current[p_key] = node for each group
RECURSIVE SetKeys(_, _, _, _, _)
SetKey(g, c, po, ps, current, kn) ==
    IF isRaise(kn.node) THEN kn.node
    ELSE SetKeys(g, c, po, ps, (kn.p_key :> kn.node) @@ current)

SetKeys(g, c, po, ps, current) ==
    IF ps = <<>> THEN Obj(current)
    ELSE SetKey(g, c, po, Tail(ps), current,
                _key_and_node(g, c, Head(ps), ObjsOf(po, Head(ps))))

\* _subject_to_node giving every blank node its label, referenced or not
_subject_to_node_label(g, c, s, po) ==
    SetKeys(g, c, po, PredsOf(po, {}),
            IF isURIRef(s) THEN id_key(c) :> Str(shrink(c, s.v))
            ELSE IF isBNode(s) THEN id_key(c) :> Str(n3(s))
            ELSE EmptyDict)

\* _subject_to_node, po the order in which predicate_objects(s) enumerates
_subject_to_node(g, c, s, po) ==
    SetKeys(g, c, po, PredsOf(po, {}),
            IF isURIRef(s) THEN id_key(c) :> Str(shrink(c, s.v))
            ELSE IF referenced(g, s) /\ isBNode(s) THEN id_key(c) :> Str(n3(s))
            ELSE EmptyDict)

\* the test of _from_graph: the subject becomes a node of the graph
is_top_level(g, s) ==
    isURIRef(s) \/ (isBNode(s) /\ objects(g, s, RDF_first) = {})

\* the subjects of the nodes of _from_graph, ss the order in which
\* set(graph.subjects()) enumerates
top_level(g, ss) == SelectSeq(ss, LAMBDA s : is_top_level(g, s))

nodes_of(g, c, tl, pos) ==
    [i \in 1..Len(tl) |-> _subject_to_node(g, c, tl[i], pos[tl[i]])]

\* _from_graph, pos[s] the order of predicate_objects(s)
_from_graph(g, c, ss, pos) == nodes_of(g, c, top_level(g, ss), pos)

\* ------------------------------------------------------------------ inputs

S1 == IRI("ex/s1")
S2 == IRI("ex/s2")
O1 == IRI("ex/o1")
O2 == IRI("ex/o2")
G1 == IRI("ex/g1")
G2 == IRI("ex/g2")
PP == IRI("ex/p")
QQ == IRI("ex/q")
BA == BNode("a")
BB == BNode("b")
LX == Literal("x", None, None)
LY == Literal("y", None, None)
LEn == Literal("hi", None, "en")
LDe == Literal("hallo", None, "de")
LInt == Literal("1", XSD_int, None)
LStr == Literal("s", XSD_string, None)

\* the subsets of S with at most n elements
RECURSIVE UpTo(_, _)
UpTo(S, n) ==
    IF n = 0 \/ S = {} THEN {{}}
    ELSE LET x == CHOOSE y \in S : TRUE
         IN  UpTo(S \ {x}, n) \cup {T \cup {x} : T \in UpTo(S \ {x}, n - 1)}

\* every node has at most one list-first and at most one list-rest object
functional(T) ==
    \A t \in T, u \in T :
        (t.s = u.s /\ t.p = u.p /\ t.p \in {RDF_first, RDF_rest}) => t.o = u.o

\* the context given to from_rdf, resolved: whether it is active, whether it
\* declares the prefixes shrink compacts with, its default language, its
\* terms by predicate, and the context data embedded in the output
Ctx(prefixes, language, terms) ==
    [active |-> TRUE, prefixes |-> prefixes, language |-> language, terms |-> terms,
     data |-> <<"ctx", prefixes, language, terms>>]
NoCtx ==
    [active |-> FALSE, prefixes |-> FALSE, language |-> None, terms |-> EmptyDict,
     data |-> NoneVal]

TermTypes == {NoType, unicode(ID), unicode(XSD_int)}
Containers == {None, SET, LIST}
PTerms == {("ex/p" :> Term("p", t, k)) : t \in TermTypes, k \in Containers}

\* lists, well formed and malformed, referenced from a property
ListPool ==
    {Triple(S1, PP, BA), Triple(S1, PP, BB),
     Triple(BA, RDF_first, LX), Triple(BA, RDF_rest, BB), Triple(BA, RDF_rest, RDF_nil),
     Triple(BB, RDF_first, LY), Triple(BB, RDF_rest, RDF_nil), Triple(BB, RDF_rest, BA),
     Triple(BB, RDF_first, BA), Triple(BA, QQ, LX)}
ListCtxs ==
    {NoCtx, Ctx(TRUE, None, EmptyDict), Ctx(TRUE, None, "rdf/first" :> Term("first", NoType, None))}
    \cup {Ctx(TRUE, None, t) : t \in PTerms}

\* the kinds of object of one subject, with and without a term
ValPool ==
    {Triple(S1, PP, LX), Triple(S1, PP, LEn), Triple(S1, PP, LDe), Triple(S1, PP, LInt),
     Triple(S1, PP, O1), Triple(S1, PP, BA),
     Triple(S1, RDF_type, O1), Triple(S1, RDF_type, O2), Triple(BA, QQ, LStr)}
ValCtxs ==
    {NoCtx, Ctx(TRUE, None, EmptyDict), Ctx(FALSE, "en", EmptyDict)}
    \cup {Ctx(TRUE, l, "ex/p" :> Term("p", t, k)) :
             l \in {None, "en"}, t \in TermTypes, k \in {None, SET}}

\* graphs, named and not, of a store that is or is not context aware
DocPool ==
    {Triple(S1, PP, LX), Triple(S2, PP, LX), Triple(G1, PP, LY), Triple(BA, PP, LX)}
DocIds == {BNode("g"), BNode("h"), G1, G2}
DocCtxs ==
    {NoCtx, Ctx(TRUE, None, EmptyDict), Ctx(FALSE, None, "ex/p" :> Term("p", NoType, None))}

Graph(id, T) == [id |-> id, triples |-> T]

\* the graphs a set of (identifier, statement) pairs makes
GraphsOf(Q) == {Graph(i, {q[2] : q \in {r \in Q : r[1] = i}}) : i \in {q[1] : q \in Q}}

InitList ==
    /\ \E T \in {U \in UpTo(ListPool, MaxTriples) : functional(U)} :
          store = [aware |-> FALSE, graphs |-> {Graph(BNode("g"), T)}]
    /\ ctx \in ListCtxs

InitVal ==
    /\ \E T \in UpTo(ValPool, MaxValTriples) :
          store = [aware |-> FALSE, graphs |-> {Graph(BNode("g"), T)}]
    /\ ctx \in ValCtxs

InitDoc ==
    /\ \/ \E T \in UpTo(DocPool, MaxDocTriples), i \in {BNode("g"), G1} :
             store = [aware |-> FALSE, graphs |-> {Graph(i, T)}]
       \/ \E Q \in UpTo(DocIds \X DocPool, MaxDocTriples) :
             store = [aware |-> TRUE, graphs |-> GraphsOf(Q)]
    /\ ctx \in DocCtxs

Init ==
    /\ InitList \/ InitVal \/ InitDoc
    /\ pc = "start"
    /\ graphs = <<>>
    /\ gi = 1
    /\ objs = <<>>
    /\ nodes = <<>>
    /\ subjs = <<>>
    /\ result = NoneVal
    /\ prev = NoneVal

\* ------------------------------------------------------------------ from_rdf

\* use_expanded = not context
use_expanded == ~Active(ctx)

\* dict.get
Get(o, k) == IF k \in DOMAIN o[2] THEN o[2][k] ELSE NoneVal

\* the orders of predicate_objects(s), for every subject of the graph
RECURSIVE PairOrders(_, _)
PairOrders(g, S) ==
    IF S = {} THEN {EmptyDict}
    ELSE LET s == CHOOSE x \in S : TRUE
         IN  {(s :> o) @@ f : o \in Orders(predicate_objects(g, s)),
                              f \in PairOrders(g, S \ {s})}

\* lines 97-106: the graphs of the store, the default graph first
Partition ==
    /\ pc = "start"
    /\ IF store.aware THEN
           LET named == {g \in store.graphs : isURIRef(g.id)}
               default_graph ==
                   Graph(BNode("default"),
                         UNION {g.triples : g \in store.graphs \ named})
           IN  \E order \in Orders(named) : graphs' = <<default_graph>> \o order
       ELSE graphs' = <<CHOOSE g \in store.graphs : TRUE>>
    /\ pc' = "loop"
    /\ gi' = 1
    /\ objs' = <<>>
    /\ UNCHANGED <<store, ctx, nodes, subjs, result, prev>>

\* the object of one graph before the merge rule (lines 112-125); <<"none">>
\* when the loop continues without one
graph_obj(c, g, ns) ==
    LET graphname == IF isURIRef(g.id) THEN Str(shrink(c, g.id.v)) ELSE NoneVal
        obj0 == IF isURIRef(g.id) THEN id_key(c) :> graphname ELSE EmptyDict
        obj1 == IF Active(c) THEN (CONTEXT :> c.data) @@ obj0 ELSE obj0
    IN  IF graphname = NoneVal /\ Len(ns) = 1 THEN Obj(ns[1][2] @@ obj1)
        ELSE IF ~Active(c) THEN
            IF ns = <<>> THEN NoneVal
            ELSE Obj((graph_key(c) :> Arr(ns)) @@ obj1)
        ELSE Obj(obj1)

\* lines 126-129: merge into the first object or append
merge(c, g, os, obj) ==
    LET graphname == IF isURIRef(g.id) THEN Str(shrink(c, g.id.v)) ELSE NoneVal
    IN  IF os # <<>> /\ Get(os[1], id_key(c)) = graphname
        THEN <<Obj(obj[2] @@ os[1][2])>> \o Tail(os)
        ELSE Append(os, obj)

\* lines 119-129 for the nodes ns of the graph, built from the subjects tl
GraphResult(g, tl, ns) ==
    IF FirstRaise(ns) # NoneVal THEN
        /\ pc' = "done"
        /\ result' = FirstRaise(ns)
        /\ UNCHANGED <<gi, objs, nodes, subjs>>
    ELSE
        /\ nodes' = ns
        /\ subjs' = tl
        /\ objs' = IF graph_obj(ctx, g, ns) = NoneVal THEN objs
                   ELSE merge(ctx, g, objs, graph_obj(ctx, g, ns))
        /\ gi' = gi + 1
        /\ UNCHANGED <<pc, result>>

\* one iteration of the loop over graphs (lines 111-129)
GraphStep ==
    /\ pc = "loop"
    /\ gi <= Len(graphs)
    /\ \E ss \in Orders(subjects(graphs[gi])),
          pos \in PairOrders(graphs[gi], subjects(graphs[gi])) :
            GraphResult(graphs[gi], top_level(graphs[gi], ss),
                        _from_graph(graphs[gi], ctx, ss, pos))
    /\ UNCHANGED <<store, ctx, graphs, prev>>

\* the collapse without its second test, len(graphs) == 1
collapse_one(c, gs, os) ==
    IF Len(os) = 1 /\ Active(c) THEN
        LET items_ == Get(os[1], graph_key(c))
        IN  IF Cardinality(DOMAIN os[1][2]) = 1 /\ items_ # NoneVal /\ items_ # Arr(<<>>)
            THEN items_ ELSE os[1]
    ELSE Arr(os)

\* lines 130-135: the collapse of the list of objects
collapse(c, gs, os) ==
    IF (Len(os) = 1 /\ Active(c)) \/ Len(gs) = 1 THEN
        IF os = <<>> THEN Raise("IndexError")
        ELSE LET items_ == Get(os[1], graph_key(c))
             IN  IF Cardinality(DOMAIN os[1][2]) = 1 /\ items_ # NoneVal /\ items_ # Arr(<<>>)
                 THEN items_ ELSE os[1]
    ELSE Arr(os)

Collapse ==
    /\ pc = "loop"
    /\ gi > Len(graphs)
    /\ result' = collapse(ctx, graphs, objs)
    /\ pc' = "done"
    /\ UNCHANGED <<store, ctx, graphs, gi, objs, nodes, subjs, prev>>

\* from_rdf is called again on the same store with the same context; prev
\* keeps what the call before returned or raised
Again ==
    /\ pc = "done"
    /\ prev' = result
    /\ pc' = "start"
    /\ graphs' = <<>>
    /\ gi' = 1
    /\ objs' = <<>>
    /\ nodes' = <<>>
    /\ subjs' = <<>>
    /\ result' = NoneVal
    /\ UNCHANGED <<store, ctx>>

Next == Partition \/ GraphStep \/ Collapse \/ Again

Spec == Init /\ [][Next]_vars

\* ------------------------------------------------------------------ properties

\* the graph whose nodes the variables nodes and subjs hold
Processed == gi > 1
LastGraph == graphs[gi - 1]

\* the conversion has returned a tree (it did not raise)
Returned == pc = "done" /\ ~isRaise(result)

\* the elements of an array
Elems(v) == {v[2][i] : i \in 1..Len(v[2])}

\* the key under which the spec puts a predicate that has no term
PlainKey(c, p) == IF p = RDF_type THEN "@type" ELSE shrink(c, p.v)

\* the term the context declares for a predicate
TermOf(c, p) == IF p.v \in DOMAIN c.terms THEN c.terms[p.v] ELSE NoTermDecl

\* the predicates of a subject
PredicatesOf(g, s) == {t.p : t \in {u \in g.triples : u.s = s}}

\* C5: a subject with exactly two objects on a predicate for which the
\* context resolves no term has, under that predicate's output key, an array
\* of length 2, with and without an active context
C5_TwoObjectsArray ==
    Processed =>
        \A i \in 1..Len(nodes) : \A p \in PredicatesOf(LastGraph, subjs[i]) :
            (Cardinality(objects(LastGraph, subjs[i], p)) = 2 /\ TermOf(ctx, p) = NoTermDecl)
            => /\ PlainKey(ctx, p) \in DOMAIN nodes[i][2]
               /\ isArr(nodes[i][2][PlainKey(ctx, p)])
               /\ Len(nodes[i][2][PlainKey(ctx, p)][2]) = 2

\* a node with two objects on a term-less predicate was built under an
\* active context
C5_Witness ==
    /\ Processed
    /\ Active(ctx)
    /\ \E i \in 1..Len(nodes) :
          /\ Cardinality(objects(LastGraph, subjs[i], PP)) = 2
          /\ TermOf(ctx, PP) = NoTermDecl
          /\ "ex:p" \in DOMAIN nodes[i][2]

\* C6: the Value Renderer gives a literal whose language is the default
\* language of the context as its bare value, and a literal with another
\* language as the object of exactly the language key and the value key
C6_LanguageRendering ==
    \A k \in 1..Len(graphs) : \A t \in graphs[k].triples :
        (isLiteral(t.o) /\ t.o.lang # None) =>
            _to_raw_value(graphs[k], ctx, t.o) =
                IF t.o.lang = ctx.language THEN Str(t.o.v)
                ELSE Obj([key \in {"@language", "@value"} |->
                            IF key = "@language" THEN Str(t.o.lang) ELSE Str(t.o.v)])

\* a node holds the bare value of a literal in the default language next to
\* the wrapped value of a literal in another language
C6_Witness ==
    /\ Processed
    /\ ctx.language = "en"
    /\ \E i \in 1..Len(nodes) :
          /\ objects(LastGraph, subjs[i], PP) = {LEn, LDe}
          /\ TermOf(ctx, PP) = NoTermDecl
          /\ Str("hi") \in Elems(nodes[i][2][PlainKey(ctx, PP)])
          /\ Obj(("@language" :> Str("de")) @@ ("@value" :> Str("hallo")))
                \in Elems(nodes[i][2][PlainKey(ctx, PP)])

\* the nodes of the list-first/list-rest chain from n to nil; NoTerm marks a
\* chain that is broken, branches or comes back to a node it has passed
RECURSIVE ChainNodes(_, _, _)
ChainNodes(g, n, seen) ==
    IF n = RDF_nil THEN <<>>
    ELSE IF \/ n \in seen
            \/ ~isBNode(n)
            \/ Cardinality(objects(g, n, RDF_first)) # 1
            \/ Cardinality(objects(g, n, RDF_rest)) # 1
         THEN <<NoTerm>>
    ELSE <<n>> \o ChainNodes(g, CHOOSE o \in objects(g, n, RDF_rest) : TRUE, seen \cup {n})

ElementOf(g, n) == CHOOSE o \in objects(g, n, RDF_first) : TRUE

\* a well-formed list: a chain of blank nodes that ends in nil, whose elements
\* are literals, IRIs, blank nodes or well-formed lists that do not contain
\* the list itself
RECURSIVE WellFormedList(_, _, _)
WellFormedList(g, h, outer) ==
    /\ isBNode(h)
    /\ h \notin outer
    /\ \A i \in 1..Len(ChainNodes(g, h, {})) :
          /\ ChainNodes(g, h, {})[i] # NoTerm
          /\ LET e == ElementOf(g, ChainNodes(g, h, {})[i])
             IN  objects(g, e, RDF_first) # {} => WellFormedList(g, e, outer \cup {h})

\* the renderings of the elements of a well-formed list, in chain order
ElementValues(g, c, h) ==
    [i \in 1..Len(ChainNodes(g, h, {})) |->
        _to_raw_value(g, c, ElementOf(g, ChainNodes(g, h, {})[i]))]

\* the statements whose object is the head of a well-formed list and the
\* only object of its subject and predicate
ListReferences(g) ==
    {t \in g.triples :
        /\ t.p \notin {RDF_first, RDF_rest}
        /\ objects(g, t.s, t.p) = {t.o}
        /\ WellFormedList(g, t.o, {})}

\* the value a list reference must have under its key
ListValue(g, c, t) ==
    IF TermOf(c, t.p).container = LIST THEN {Arr(ElementValues(g, c, t.o))}
    ELSE {Obj("@list" :> Arr(ElementValues(g, c, t.o))),
          Arr(<<Obj("@list" :> Arr(ElementValues(g, c, t.o)))>>)}

Malformed(g, a) ==
    isBNode(a) /\ objects(g, a, RDF_first) # {} /\ objects(g, a, RDF_rest) = {}

\* the values below a value, itself included
RECURSIVE Parts(_)
Parts(v) ==
    {v} \cup
    IF isArr(v) THEN UNION {Parts(v[2][i]) : i \in 1..Len(v[2])}
    ELSE IF isObj(v) THEN UNION {Parts(v[2][k]) : k \in DOMAIN v[2]}
    ELSE {}

\* C2 as stated: a blank node with list-first and no list-rest is emitted as
\* an ordinary node that carries its other properties, and no node holds a
\* list-key wrapper
C2_MalformedIsOrdinaryNode ==
    (Processed /\ \E a \in subjects(LastGraph) : Malformed(LastGraph, a)) =>
        /\ \A a \in subjects(LastGraph) : Malformed(LastGraph, a) =>
              \E i \in 1..Len(nodes) :
                  /\ subjs[i] = a
                  /\ \A p \in PredicatesOf(LastGraph, a) \ {RDF_first} :
                        PlainKey(ctx, p) \in DOMAIN nodes[i][2]
        /\ \A i \in 1..Len(nodes) : \A v \in Parts(nodes[i]) :
              isObj(v) => "@list" \notin DOMAIN v[2]

\* the subjects the spec makes top-level nodes: the IRIs, and the blank nodes
\* that are not list heads
TopSubjects(g) ==
    {s \in subjects(g) : isURIRef(s) \/ (isBNode(s) /\ objects(g, s, RDF_first) = {})}

\* the store has exactly one graph, and that graph exactly one top-level node
OneGraphOneNode ==
    /\ Cardinality(store.graphs) = 1
    /\ \A g \in store.graphs : Cardinality(TopSubjects(g)) = 1
    /\ Len(nodes) = 1

\* the tree is the object of the single node: not an array, no graph key
IsTheNode(tree, node) ==
    /\ isObj(tree)
    /\ "@graph" \notin DOMAIN tree[2]
    /\ \A k \in DOMAIN node[2] : k \in DOMAIN tree[2] /\ tree[2][k] = node[2][k]

\* C3 as stated: one graph, named by an IRI or not, with one top-level node
\* gives the object of that node
C3_Original == (Returned /\ OneGraphOneNode) => IsTheNode(result, nodes[1])

\* C3 (amended): one graph whose identifier is not an IRI, with one top-level
\* node, gives the object of that node
C3_Flatten ==
    (Returned /\ OneGraphOneNode /\ \A g \in store.graphs : ~isURIRef(g.id))
        => IsTheNode(result, nodes[1])

\* the single node of the single anonymous graph of a context-aware store
\* came back as the tree
C3_Witness ==
    /\ Returned
    /\ OneGraphOneNode
    /\ store.aware
    /\ \A g \in store.graphs : ~isURIRef(g.id)
    /\ isObj(result)
    /\ "@id" \in DOMAIN result[2]
    /\ ~Active(ctx)

\* a store of one default graph with the single statement t, a literal
\* without datatype and language, under a context with a plain term for it
SingleLiteral(t) ==
    /\ store.graphs \in {{Graph(BNode("g"), {t})}, {Graph(BNode("h"), {t})}}
    /\ isLiteral(t.o) /\ t.o.dt = None /\ t.o.lang = None
    /\ Active(ctx)
    /\ TermOf(ctx, t.p) # NoTermDecl
    /\ TermOf(ctx, t.p).type = NoType
    /\ TermOf(ctx, t.p).container = None

AllTriples == UNION {g.triples : g \in store.graphs}

\* C4 as stated, where the subject becomes a node: the tree has the
\* identifier key iff the subject is an IRI, the term's name with the bare
\* literal, and no further key
C4_Original ==
    pc = "done" =>
        \A t \in AllTriples :
            (SingleLiteral(t) /\ t.s \in TopSubjects(Graph(NoTerm, {t}))) =>
            /\ isObj(result)
            /\ DOMAIN result[2] = (IF isURIRef(t.s) THEN {"@id"} ELSE {}) \cup {TermOf(ctx, t.p).name}
            /\ result[2][TermOf(ctx, t.p).name] = Str(t.o.v)

\* C4 (amended): for a subject that is an IRI or a blank node that is not a
\* list head, the tree has the identifier key iff the subject is an IRI, the
\* term's name with the bare literal, the context key with the context data,
\* and no further key
C4_SingleLiteral ==
    pc = "done" =>
        \A t \in AllTriples :
            (SingleLiteral(t) /\ t.s \in TopSubjects(Graph(NoTerm, {t}))) =>
                /\ isObj(result)
                /\ DOMAIN result[2] =
                      (IF isURIRef(t.s) THEN {"@id"} ELSE {})
                          \cup {TermOf(ctx, t.p).name, "@context"}
                /\ result[2][TermOf(ctx, t.p).name] = Str(t.o.v)
                /\ result[2]["@context"] = ctx.data

\* the single statement of a blank node came back without an identifier key
C4_Witness ==
    /\ pc = "done"
    /\ SingleLiteral(Triple(BA, PP, LX))
    /\ AllTriples = {Triple(BA, PP, LX)}
    /\ isObj(result)
    /\ DOMAIN result[2] = {"p", "@context"}

\* a value without the order of its arrays (the array of a list key keeps
\* its order) and without the kind of its exception
BagOf(seq) ==
    [e \in {seq[i] : i \in 1..Len(seq)} |-> Cardinality({i \in 1..Len(seq) : seq[i] = e})]

RECURSIVE Canon(_)
Canon(v) ==
    IF isRaise(v) THEN <<"raise">>
    ELSE IF isArr(v) THEN <<"bag", BagOf([i \in 1..Len(v[2]) |-> Canon(v[2][i])])>>
    ELSE IF isObj(v) THEN
        <<"obj", [k \in DOMAIN v[2] |->
                    IF k = "@list" /\ isArr(v[2][k])
                    THEN <<"seq", [i \in 1..Len(v[2][k][2]) |-> Canon(v[2][k][2][i])]>>
                    ELSE Canon(v[2][k])]>>
    ELSE v

InObject(n, o) ==
    /\ isObj(o)
    /\ \/ \A k \in DOMAIN n[2] : k \in DOMAIN o[2] /\ o[2][k] = n[2][k]
       \/ "@graph" \in DOMAIN o[2] /\ isArr(o[2]["@graph"]) /\ n \in Elems(o[2]["@graph"])

Represented(n, tree) ==
    \/ InObject(n, tree)
    \/ isArr(tree) /\ (n \in Elems(tree) \/ \E e \in Elems(tree) : InObject(n, e))

\* C8 as stated, for the graph converted last: every node built is in the
\* tree from_rdf returns
C8_NoNodeDropped ==
    (Returned /\ Processed) => \A i \in 1..Len(nodes) : Represented(nodes[i], result)

\* C9 as stated: a store without statements, or whose graphs yield no
\* top-level node, is converted to an object or an array without an exception
C9_EmptyStoreReturns ==
    (pc = "done" /\ \A g \in store.graphs : TopSubjects(g) = {})
        => (isObj(result) \/ isArr(result))

\* the datatype all objects share: every object a literal of that datatype
SharedDatatype(os) ==
    IF \A o \in os : isLiteral(o) /\ o.dt # None /\ \A u \in os : u.dt = o.dt
    THEN unicode((CHOOSE o \in os : TRUE).dt) ELSE NoType

\* the per-value rendering C10 states for an object o of a found term
Claimed(g, c, term, os, o, v) ==
    IF term.type = unicode(ID) THEN
        (isURIRef(o) => v = Str(shrink(c, o.v)))
        /\ (isBNode(o) => v \in {Str(o.v), Str(n3(o))})
    ELSE IF term.type # NoType /\ term.type = SharedDatatype(os) THEN v = Str(o.v)
    ELSE v = _to_raw_value(g, c, o)

\* the per-value renderings a node holds under a key
PerValue(v, os, term) ==
    IF term.container = SET \/ Cardinality(os) # 1 THEN Elems(v) ELSE {v}

\* C10 as stated, for the terms without list container: the values under a
\* found term are the bare identifiers (type id), the bare literals (type
\* equal to the shared datatype) or the Value Renderer's results, and an
\* object that is no literal under a typed term raises nothing
C10_TermRendering ==
    /\ Processed =>
          \A i \in 1..Len(nodes) : \A p \in PredicatesOf(LastGraph, subjs[i]) :
              (TermOf(ctx, p) # NoTermDecl /\ TermOf(ctx, p).container # LIST) =>
                  LET os == objects(LastGraph, subjs[i], p)
                      vs == PerValue(Get(nodes[i], TermOf(ctx, p).name), os, TermOf(ctx, p))
                  IN  /\ \A o \in os : \E v \in vs :
                            Claimed(LastGraph, ctx, TermOf(ctx, p), os, o, v)
                      /\ \A v \in vs : \E o \in os :
                            Claimed(LastGraph, ctx, TermOf(ctx, p), os, o, v)
    /\ pc = "done" => result # Raise("AttributeError")

====
